---- MODULE Spec2Model ----
(***************************************************************************)
(* The chat request gateway of Gent-Davenport-Maintenance/func-api:        *)
(* the blocking handler chat, the streaming handler chat_stream with its   *)
(* generator event_generator, the client cache get_clients, the citation   *)
(* rewriter transform_transcript_urls_to_youtube and the trace extractor   *)
(* extract_reasoning_trace.                                                *)
(*                                                                         *)
(* Texts are sequences of tokens.  A token is one character ("[", "0",     *)
(* " ") or one unit the patterns treat as a whole (the storage URL prefix, *)
(* ".md", a word).  Request bodies are JSON objects with the three fields  *)
(* of a ChatRequest, or bytes that do not parse as JSON.  Durations are    *)
(* abstracted to the names of the phases that were timed.                  *)
(***************************************************************************)
EXTENDS Integers, Sequences, FiniteSets, TLC

\* ------------------------------------------------------------------ bounds
\* Number of completed signals the backend stream may deliver to one request.
MaxCompleted == 2

\* Number of pieces an input text of the rewriter is put together from.
MaxPieces == 3

\* Number of worker threads that call get_clients concurrently.
NumThreads == 3

\* ------------------------------------------------------------ text tokens
None == "None"

DigitChars == <<"0", "1", "2", "3", "4", "5", "6", "7", "8", "9">>

IsDigit(t) == \E k \in 1..10 : DigitChars[k] = t

DigitVal(t) == (CHOOSE k \in 1..10 : DigitChars[k] = t) - 1

\* \s of the patterns
IsSpace(t) == t \in {" ", "\n"}

\* https://stj6lw7vswhnnhw.blob.core.windows.net/video-training/
PRE == "https://stj6lw7vswhnnhw.blob.core.windows.net/video-training/"

\* https://www.youtube.com/watch?v=
YT == "https://www.youtube.com/watch?v="

\* Two of the ten entries: a name of one word and a name with a space and
\* parentheses, as "... Cross Working Tools (part 1)".
YOUTUBE_VIDEO_MAP ==
    [n \in {<<"Stocking">>, <<"Tools", " ", "(", "part1", ")">>} |->
        IF n = <<"Stocking">> THEN "22tb3sbqquM" ELSE "rINsPjoNOlA"]

\* urllib.parse.unquote on one token: %20 is a space, %28 and %29 the
\* parentheses; every other token decodes to itself.
UnquoteTok(t) ==
    CASE t = "%20" -> " "
      [] t = "%28" -> "("
      [] t = "%29" -> ")"
      [] OTHER -> t

unquote(name) == [k \in 1..Len(name) |-> UnquoteTok(name[k])]

RECURSIVE Flatten(_)
Flatten(ss) == IF ss = <<>> THEN <<>> ELSE Head(ss) \o Flatten(Tail(ss))

\* str(int) for a non-negative integer
RECURSIVE Decimal(_)
Decimal(n) ==
    IF n < 10 THEN <<DigitChars[n + 1]>>
    ELSE Decimal(n \div 10) \o <<DigitChars[(n % 10) + 1]>>

\* int(s) for a string of digits
RECURSIVE ParseInt(_)
ParseInt(ds) ==
    IF ds = <<>> THEN 0
    ELSE 10 * ParseInt(SubSeq(ds, 1, Len(ds) - 1)) + DigitVal(ds[Len(ds)])

\* Smallest member of a set of integers, 0 when the set is empty.
MinOr0(S) == IF S = {} THEN 0 ELSE CHOOSE x \in S : \A y \in S : x <= y

\* ------------------------------------------------------ citation rewriter
\* The token at position k of s, or the empty string past either end.
At(s, k) == IF k \in 1..Len(s) THEN s[k] ELSE ""

\* \d{1,2}:\d{2} at position q: the number of tokens it takes, 0 if no match.
ClockLen(s, q) ==
    LET d == IF IsDigit(At(s, q)) /\ IsDigit(At(s, q + 1)) /\ At(s, q + 2) = ":"
                THEN 2
             ELSE IF IsDigit(At(s, q)) /\ At(s, q + 1) = ":" THEN 1
             ELSE 0
    IN  IF d > 0 /\ IsDigit(At(s, q + d + 1)) /\ IsDigit(At(s, q + d + 2))
        THEN d + 3 ELSE 0

\* \d{1,2}:\d{2}(?:-\d{1,2}:\d{2})? at position q
TimestampLen(s, q) ==
    LET c == ClockLen(s, q)
        r == ClockLen(s, q + c + 1)
    IN  IF c = 0 THEN 0
        ELSE IF At(s, q + c) = "-" /\ r > 0 THEN c + 1 + r
        ELSE c

\* Number of whitespace tokens from position q on (\s*).
RECURSIVE SpaceRun(_, _)
SpaceRun(s, q) == IF IsSpace(At(s, q)) THEN 1 + SpaceRun(s, q + 1) ELSE 0

\* (.+?)\.md followed by what the pattern wants next: the position of the
\* first ".md" that comes after at least one token from a, with no newline
\* before it, and that is followed by a token of followers (or, with
\* at_end, by the end of the text); 0 if there is none.
NameEnd(s, a, followers, at_end) ==
    MinOr0({e \in (a + 1)..Len(s) :
               /\ s[e] = ".md"
               /\ \/ At(s, e + 1) \in followers
                  \/ at_end /\ e = Len(s)
               /\ \A k \in a..(e - 1) : s[k] # "\n"})

\* The markdown pattern at position i:
\* \[([^\]]+)\]\((PRE(.+?)\.md)\)(\s*(timestamp))?
MdMatch(s, i) ==
    LET j  == MinOr0({k \in (i + 1)..Len(s) : s[k] = "]"})
        a  == j + 3
        e  == NameEnd(s, a, {")"}, FALSE)
        ok == /\ At(s, i) = "["
              /\ j > i + 1
              /\ At(s, j + 1) = "("
              /\ At(s, j + 2) = PRE
              /\ e > 0
        q  == (e + 2) + SpaceRun(s, e + 2)
        t  == TimestampLen(s, q)
    IN  IF ~ok THEN [ok |-> FALSE, stop |-> 0, link_text |-> <<>>,
                     name |-> <<>>, timestamp_str |-> <<>>]
        ELSE [ok |-> TRUE,
              stop |-> IF t > 0 THEN q + t - 1 ELSE e + 1,
              link_text |-> SubSeq(s, i + 1, j - 1),
              name |-> SubSeq(s, a, e - 1),
              timestamp_str |-> IF t > 0 THEN SubSeq(s, q, q + t - 1) ELSE <<>>]

\* Mutant: the offset is taken from the last bound of a range.
TotalSeconds_LastBound(timestamp_str) ==
    LET dash  == MinOr0({k \in 1..Len(timestamp_str) : timestamp_str[k] = "-"})
        last  == SubSeq(timestamp_str, dash + 1, Len(timestamp_str))
        colon == MinOr0({k \in 1..Len(last) : last[k] = ":"})
        minutes == ParseInt(SubSeq(last, 1, colon - 1))
        seconds == ParseInt(SubSeq(last, colon + 1, Len(last)))
    IN  minutes * 60 + seconds

\* timestamp_str.split('-')[0], then minutes * 60 + seconds
TotalSeconds(timestamp_str) ==
    LET dash  == MinOr0({k \in 1..Len(timestamp_str) : timestamp_str[k] = "-"})
        first == IF dash = 0 THEN timestamp_str
                 ELSE SubSeq(timestamp_str, 1, dash - 1)
        colon == MinOr0({k \in 1..Len(first) : first[k] = ":"})
        minutes == ParseInt(SubSeq(first, 1, colon - 1))
        seconds == ParseInt(SubSeq(first, colon + 1, Len(first)))
    IN  minutes * 60 + seconds

\* replace_with_youtube: the replacement of one markdown match m, whose
\* matched text is g0.
replace_with_youtube(m, g0) ==
    LET video_name == unquote(m.name)
    IN  IF video_name \notin DOMAIN YOUTUBE_VIDEO_MAP THEN g0
        ELSE LET youtube_url ==
                     <<YT, YOUTUBE_VIDEO_MAP[video_name]>>
                     \o (IF m.timestamp_str # <<>>
                         THEN <<"&t=">> \o Decimal(TotalSeconds(m.timestamp_str))
                         ELSE <<>>)
                 display_text ==
                     IF m.timestamp_str # <<>>
                     THEN m.link_text \o <<" ">> \o m.timestamp_str
                     ELSE m.link_text
             IN  <<"[">> \o display_text \o <<"]", "(">> \o youtube_url \o <<")">>

\* re.sub(pattern, replace_with_youtube, text), from position i on
RECURSIVE MarkdownPass(_, _)
MarkdownPass(s, i) ==
    IF i > Len(s) THEN <<>>
    ELSE LET m == MdMatch(s, i)
         IN  IF m.ok
             THEN replace_with_youtube(m, SubSeq(s, i, m.stop))
                  \o MarkdownPass(s, m.stop + 1)
             ELSE <<s[i]>> \o MarkdownPass(s, i + 1)

\* The bare pattern at position i: (PRE(.+?)\.md)(?=[\s")\]]|$); the
\* position of its ".md", 0 if no match.
PlainMatch(s, i) ==
    IF At(s, i) # PRE THEN 0
    ELSE NameEnd(s, i + 1, {" ", "\n", "\"", ")", "]"}, TRUE)

\* Mutant: the lookup result is used without the "if youtube_id" test.
replace_plain_url_Unchecked(full_url, video_name_encoded) ==
    LET video_name == unquote(video_name_encoded)
    IN  <<YT, IF video_name \in DOMAIN YOUTUBE_VIDEO_MAP
              THEN YOUTUBE_VIDEO_MAP[video_name] ELSE None>>

\* replace_plain_url
replace_plain_url(full_url, video_name_encoded) ==
    LET video_name == unquote(video_name_encoded)
    IN  IF video_name \in DOMAIN YOUTUBE_VIDEO_MAP
        THEN <<YT, YOUTUBE_VIDEO_MAP[video_name]>>
        ELSE full_url

\* Mutant: re.sub(..., count=1), only the first bare URL is replaced.
RECURSIVE PlainPass_FirstOnly(_, _)
PlainPass_FirstOnly(s, i) ==
    IF i > Len(s) THEN <<>>
    ELSE LET e == PlainMatch(s, i)
         IN  IF e > 0
             THEN replace_plain_url(SubSeq(s, i, e), SubSeq(s, i + 1, e - 1))
                  \o SubSeq(s, e + 1, Len(s))
             ELSE <<s[i]>> \o PlainPass_FirstOnly(s, i + 1)

\* re.sub(plain_pattern, replace_plain_url, result), from position i on
RECURSIVE PlainPass(_, _)
PlainPass(s, i) ==
    IF i > Len(s) THEN <<>>
    ELSE LET e == PlainMatch(s, i)
         IN  IF e > 0
             THEN replace_plain_url(SubSeq(s, i, e), SubSeq(s, i + 1, e - 1))
                  \o PlainPass(s, e + 1)
             ELSE <<s[i]>> \o PlainPass(s, i + 1)

transform_transcript_urls_to_youtube(text) ==
    PlainPass(MarkdownPass(text, 1), 1)

\* --------------------------------------------------------- backend router
Absent == "absent"

AGENTS ==
    [l \in {"fast", "balanced", "thorough"} |->
        CASE l = "fast" -> "davenport-fast"
          [] l = "balanced" -> "davenport-balanced"
          [] l = "thorough" -> "davenport-assistant"]

DEFAULT_AGENT == "davenport-assistant"

\* Mutant: the default label for an absent reasoning_level is "fast".
ResolveAgent_FastDefault(body) ==
    LET reasoning_level == IF body.reasoning_level = Absent THEN "fast"
                           ELSE body.reasoning_level
    IN  IF reasoning_level \in DOMAIN AGENTS THEN AGENTS[reasoning_level]
        ELSE DEFAULT_AGENT

\* body.get('reasoning_level', 'thorough'), then
\* AGENTS.get(reasoning_level, DEFAULT_AGENT)
ResolveAgent(body) ==
    LET reasoning_level == IF body.reasoning_level = Absent THEN "thorough"
                           ELSE body.reasoning_level
    IN  IF reasoning_level \in DOMAIN AGENTS THEN AGENTS[reasoning_level]
        ELSE DEFAULT_AGENT

\* Mutant: the test is "is not None" instead of truth.
Truthy_IsNotNone(v) == v # None

\* Python truth of a string-or-None value: None and "" are false.
Truthy(v) == v # None /\ v # ""

\* -------------------------------------------------------- trace extractor
Ms == "ms"

NoTokens == [k \in {} |-> 0]

\* The trace dictionary extract_reasoning_trace starts from; agent <<>> is
\* Python's None.
InitialTrace ==
    [agent |-> <<>>, query_intents |-> <<>>, sources_found |-> 0,
     tokens |-> NoTokens]

\* json.loads of an argument string followed by
\* args.get("request", {}).get("knowledgeAgentIntents", []):
\* "json_error" for text that is not JSON, "not_dict" for JSON that is not
\* an object (AttributeError on .get), "type_error" for None.
ParseIntents(arguments) ==
    CASE arguments = "{not json" -> [raised |-> "json_error", intents |-> <<>>]
      [] arguments = "[]"        -> [raised |-> "not_dict", intents |-> <<>>]
      [] arguments = None        -> [raised |-> "type_error", intents |-> <<>>]
      [] arguments = "{}"        -> [raised |-> "", intents |-> <<>>]
      [] arguments = "{intents:[q1,q2]}" ->
             [raised |-> "", intents |-> <<"q1", "q2">>]
      [] arguments = "{intents:[q3]}" ->
             [raised |-> "", intents |-> <<"q3">>]

\* re.search(r"Retrieved (\d+) documents", output_str) guarded by
\* "Retrieved" in output_str; -1 when nothing is to be stored.
RetrievedCount(output_str) ==
    CASE output_str = "Retrieved 3 documents" -> 3
      [] output_str = "Retrieved 7 documents" -> 7
      [] OTHER -> -1

\* The loop over response_dict["output"]; a record whose handling raises
\* past the inner except ends the loop with the trace built so far.
RECURSIVE ExtractItems(_, _)
ExtractItems(items, trace) ==
    IF items = <<>> THEN trace
    ELSE LET item == Head(items)
             args_str == IF "arguments" \in DOMAIN item THEN item.arguments
                         ELSE "{}"
             p == ParseIntents(args_str)
             t1 == IF p.raised = "" THEN [trace EXCEPT !.query_intents = p.intents]
                   ELSE trace
             output_str == IF "output" \in DOMAIN item THEN item.output ELSE ""
             n == RetrievedCount(output_str)
             t2 == IF n >= 0 THEN [t1 EXCEPT !.sources_found = n] ELSE t1
         IN  IF item.type # "mcp_call" THEN ExtractItems(Tail(items), trace)
             ELSE IF p.raised \in {"not_dict", "type_error"} THEN trace
             ELSE IF output_str = None THEN t1
             ELSE ExtractItems(Tail(items), t2)

UsageTokens(usage) ==
    [input  |-> IF "input_tokens" \in DOMAIN usage THEN usage.input_tokens ELSE 0,
     output |-> IF "output_tokens" \in DOMAIN usage THEN usage.output_tokens ELSE 0,
     total  |-> IF "total_tokens" \in DOMAIN usage THEN usage.total_tokens ELSE 0]

\* response is the backend's response object; d its to_dict().
extract_reasoning_trace(response) ==
    IF ~response.to_dict_ok THEN InitialTrace
    ELSE LET d  == response.dict
             t1 == IF "agent" \in DOMAIN d
                   THEN [InitialTrace EXCEPT !.agent =
                            <<IF "name" \in DOMAIN d.agent THEN d.agent.name
                              ELSE "unknown",
                              " v",
                              IF "version" \in DOMAIN d.agent THEN d.agent.version
                              ELSE "?">>]
                   ELSE InitialTrace
             t2 == IF "usage" \in DOMAIN d
                   THEN [t1 EXCEPT !.tokens = UsageTokens(d.usage)]
                   ELSE t1
         IN  ExtractItems(IF "output" \in DOMAIN d THEN d.output ELSE <<>>, t2)

\* ------------------------------------------------------------------ state
VARIABLES
    streaming_extension, \* whether azurefunctions.extensions.http.fastapi imports
    project_client,   \* module global _project_client: None or "client"
    openai_client,    \* module global _openai_client: None or "client"
    handler,          \* the handler serving the current request
    pc,               \* its position
    req,              \* the request body
    agent_name,       \* local agent_name
    conv_id,          \* chat's conversation_id after resolution, the generator's conv_id
    calls,            \* backend calls issued for the current request, in order
    http,             \* the response object the handler returned
    events,           \* the frames event_generator has yielded, as JSON objects
    chunks,           \* the chunks written to the response body
    stream,           \* the backend stream: "none", "open", "exhausted", "raised"
    token_level,      \* whether the backend stream delivers the answer as text deltas
    answer,           \* the text fragments the backend stream is to deliver
    sent,             \* how many of them it has delivered
    signals,          \* how many completed signals it has delivered
    full_text,        \* generator local full_text
    first_text,       \* generator local first_text
    trace,            \* generator local trace
    disconnected,     \* the caller went away and the host closed the generator
    harness,          \* a pure function under test, its input and its results
    workers           \* the worker threads inside get_clients, by thread

vars == <<streaming_extension, project_client, openai_client, handler, pc, req,
          agent_name, conv_id, calls, http, events, chunks, stream, token_level,
          answer, sent, signals, full_text, first_text, trace, disconnected,
          harness, workers>>

\* ----------------------------------------------------------------- inputs
Messages == {None, "", "hi"}

ConversationIds == {None, "", "conv_abc"}

ReasoningLevels == {Absent, None, "fast", "balanced", "thorough", "turbo"}

\* req.get_json() raised ValueError
InvalidJson ==
    [json_ok |-> FALSE, message |-> None, conversation_id |-> None,
     reasoning_level |-> Absent]

Requests ==
    {InvalidJson} \cup
    [json_ok : {TRUE}, message : Messages, conversation_id : ConversationIds,
     reasoning_level : ReasoningLevels]

\* Ids the backend mints for new conversations.
MintedIds == {"conv_new"}

\* Error texts of failing backend calls.
BackendErrors == {"rate limit exceeded", "conversation not found"}

\* Answers the backend generates, as the fragments it streams them in.
Answers ==
    { <<<<"Foo">>, <<"Bar">>, <<"Baz">>>>,
      <<<<"See", " ", "[", "Intro", "]", "(", PRE>>,
        <<"Stocking", ".md", ")", " ", "0", "2", ":", "2", "8">>>>,
      <<<<PRE, "Unlisted", ".md">>>> }

\* Argument strings of tool-invocation records and events.
ArgumentStrings ==
    {"{not json", "[]", None, "{}", "{intents:[q1,q2]}", "{intents:[q3]}"}

\* resp.usage is None, or the completed response has no usage attribute.
NoUsage == [none |-> TRUE]

Usages ==
    { [input_tokens |-> 10, output_tokens |-> 5, total_tokens |-> 15],
      [input_tokens |-> 10] }

\* What the events of a backend stream carry.
StreamArguments == ArgumentStrings \ {"{intents:[q3]}"}

StreamUsages ==
    {NoUsage, [input_tokens |-> 10, output_tokens |-> 5, total_tokens |-> 15]}

\* Tool-invocation records and other output items of a blocking response.
OutputLists ==
    { <<>>,
      << [type |-> "mcp_call", arguments |-> "{intents:[q1,q2]}",
          output |-> "Retrieved 3 documents"],
         [type |-> "message"] >>,
      << [type |-> "mcp_call", arguments |-> "{not json",
          output |-> "Retrieved 3 documents"],
         [type |-> "mcp_call", arguments |-> "{}",
          output |-> "Retrieved 7 documents"] >>,
      << [type |-> "mcp_call", arguments |-> "[]",
          output |-> "Retrieved 3 documents"],
         [type |-> "mcp_call", arguments |-> "{intents:[q3]}"] >> }

\* to_dict() of the responses a blocking respond call may return.
ResponseDicts(agent) ==
    { [output |-> o] : o \in OutputLists } \cup
    { [agent |-> [name |-> agent, version |-> "3"], usage |-> u, output |-> o] :
        u \in Usages, o \in OutputLists } \cup
    { [agent |-> [name |-> agent], output |-> <<>>], [usage |-> CHOOSE u \in Usages : TRUE] }

\* The response objects: output_text is a string, or None (has_text FALSE).
Responses(agent) ==
    { [to_dict_ok |-> TRUE, dict |-> d, has_text |-> TRUE, output_text |-> Flatten(a)] :
        d \in ResponseDicts(agent), a \in Answers } \cup
    { [to_dict_ok |-> FALSE, dict |-> [output |-> <<>>], has_text |-> TRUE,
       output_text |-> Flatten(a)] : a \in Answers } \cup
    { [to_dict_ok |-> TRUE, dict |-> [output |-> <<>>], has_text |-> FALSE,
       output_text |-> <<>>] }

\* -------------------------------------------------------------- responses
NoResponse == [status_code |-> 0]

\* func.HttpResponse(json.dumps(body), mimetype="application/json", status_code=...)
HttpResponse(status_code, body) ==
    [status_code |-> status_code, mimetype |-> "application/json", body |-> body]

\* StreamingResponse(event_generator(), media_type=..., headers=...)
StreamingResponse ==
    [status_code |-> 200, media_type |-> "text/event-stream",
     headers |-> [Cache_Control |-> "no-cache", X_Accel_Buffering |-> "no"]]

\* No pure function is under test; no thread is inside get_clients.
HarnessOff == [pc |-> "off"]

NoWorkers == <<>>

\* Mutant: the frame ends with a single newline.
Frame_NoBlankLine(obj) == [line |-> <<"data: ", obj>>, then |-> "\n"]

\* f"data: {json.dumps(obj)}\n\n": one server-sent-event frame.
Frame(obj) == [line |-> <<"data: ", obj>>, then |-> "\n\n"]

\* A cold process that has served nothing yet.
Cold ==
    /\ project_client = None
    /\ openai_client = None
    /\ handler = None
    /\ pc = "idle"
    /\ req = InvalidJson
    /\ agent_name = None
    /\ conv_id = None
    /\ calls = <<>>
    /\ http = NoResponse
    /\ events = <<>>
    /\ stream = "none"
    /\ answer = <<>>
    /\ sent = 0
    /\ signals = 0
    /\ full_text = <<>>
    /\ first_text = TRUE
    /\ trace = InitialTrace
    /\ chunks = <<>>
    /\ token_level = TRUE
    /\ disconnected = FALSE

Init ==
    /\ streaming_extension \in BOOLEAN
    /\ Cold
    /\ harness = HarnessOff
    /\ workers = NoWorkers

\* A new invocation starts with fresh locals.
FreshLocals ==
    /\ conv_id' = None
    /\ calls' = <<>>
    /\ events' = <<>>
    /\ stream' = "none"
    /\ answer' = <<>>
    /\ sent' = 0
    /\ signals' = 0
    /\ full_text' = <<>>
    /\ first_text' = TRUE
    /\ trace' = InitialTrace
    /\ chunks' = <<>>
    /\ token_level' = TRUE
    /\ disconnected' = FALSE

\* ------------------------------------------------------------ get_clients
\* What get_clients() does from the cache (p, o).  built says how far a
\* cold construction gets: "none" (DefaultAzureCredential or
\* AIProjectClient raised), "project" (get_openai_client raised after
\* _project_client was assigned), "both".
get_clients(p, o, built) ==
    IF p # None THEN [project |-> p, openai |-> o, raised |-> ""]
    ELSE CASE built = "none" ->
                [project |-> None, openai |-> o, raised |-> "credential unavailable"]
           [] built = "project" ->
                [project |-> "client", openai |-> o, raised |-> "cannot build openai client"]
           [] built = "both" ->
                [project |-> "client", openai |-> "client", raised |-> ""]

Builds == {"none", "project", "both"}

\* Using the cached openai client when it is None raises AttributeError.
AttributeErrorText == "'NoneType' object has no attribute"

\* --------------------------------------------------------------- chat
\* Mutant: the except clause answers with a fixed text instead of str(e).
ChatFail_FixedText(text) ==
    /\ http' = HttpResponse(500, [error |-> "Internal server error"])
    /\ pc' = "done"

\* Mutant: the except clause also reports the conversation id.
ChatFail_WithConversation(text) ==
    /\ http' = HttpResponse(500, [error |-> text, conversation_id |-> conv_id])
    /\ pc' = "done"

\* The except clause of chat: 500 with str(e).
ChatFail(text) ==
    /\ http' = HttpResponse(500, [error |-> text])
    /\ pc' = "done"

\* Parse, validate and route (function_app.py 224-247).
ChatBegin(body) ==
    /\ pc = "idle"
    /\ handler' = "chat"
    /\ req' = body
    /\ FreshLocals
    /\ UNCHANGED <<streaming_extension, project_client, openai_client, harness, workers>>
    /\ IF ~body.json_ok
       THEN /\ http' = HttpResponse(400, [error |-> "Invalid JSON in request body"])
            /\ pc' = "done"
            /\ agent_name' = None
       ELSE IF ~Truthy(body.message)
       THEN /\ http' = HttpResponse(400, [error |-> "Message is required"])
            /\ pc' = "done"
            /\ agent_name' = None
       ELSE /\ http' = NoResponse
            /\ pc' = "clients"
            /\ agent_name' = ResolveAgent(body)

\* _, openai_client = get_clients()  (254)
ChatGetClients(built) ==
    /\ handler = "chat" /\ pc = "clients"
    /\ LET r == get_clients(project_client, openai_client, built)
       IN  /\ project_client' = r.project
           /\ openai_client' = r.openai
           /\ IF r.raised # "" THEN ChatFail(r.raised)
              ELSE /\ pc' = "conversation" /\ UNCHANGED http
    /\ UNCHANGED <<handler, req, agent_name, conv_id, calls, events, chunks, answer, sent,
                   full_text, first_text, trace>>
    /\ UNCHANGED <<streaming_extension, token_level, disconnected, harness, workers, stream, signals>>

\* if not conversation_id: conversation = openai_client.conversations.create()  (259-261)
ChatConversation(ok, id, text) ==
    /\ handler = "chat" /\ pc = "conversation"
    /\ IF Truthy(req.conversation_id)
       THEN /\ conv_id' = req.conversation_id
            /\ pc' = "respond"
            /\ UNCHANGED <<calls, http>>
       ELSE IF openai_client = None
       THEN /\ ChatFail(AttributeErrorText)
            /\ UNCHANGED <<conv_id, calls>>
       ELSE IF ok
       THEN /\ calls' = Append(calls, [op |-> "conversations.create", id |-> id, raised |-> ""])
            /\ conv_id' = id
            /\ pc' = "respond"
            /\ UNCHANGED http
       ELSE /\ calls' = Append(calls, [op |-> "conversations.create", id |-> None, raised |-> text])
            /\ ChatFail(text)
            /\ UNCHANGED conv_id
    /\ UNCHANGED <<project_client, openai_client, handler, req, agent_name, events, chunks,
                   answer, sent, full_text, first_text, trace>>
    /\ UNCHANGED <<streaming_extension, token_level, disconnected, harness, workers, stream, signals>>

\* Mutant: tool use is left to the backend.
RespondCall_AutoTools(streaming, raised) ==
    [op |-> "responses.create", conversation |-> conv_id, tool_choice |-> "auto",
     input |-> req.message, stream |-> streaming,
     agent |-> [name |-> agent_name, type |-> "agent_reference"], raised |-> raised]

\* The arguments of openai_client.responses.create
RespondCall(streaming, raised) ==
    [op |-> "responses.create", conversation |-> conv_id, tool_choice |-> "required",
     input |-> req.message, stream |-> streaming,
     agent |-> [name |-> agent_name, type |-> "agent_reference"], raised |-> raised]

ChatTimings ==
    [client_init |-> Ms, conversation_create |-> Ms, agent_response |-> Ms,
     total |-> Ms]

\* responses.create, extract_reasoning_trace, the rewriter and the 200 (266-292)
ChatRespond(ok, response, text) ==
    /\ handler = "chat" /\ pc = "respond"
    /\ IF openai_client = None
       THEN /\ ChatFail(AttributeErrorText)
            /\ UNCHANGED calls
       ELSE IF ~ok
       THEN /\ calls' = Append(calls, RespondCall(FALSE, text))
            /\ ChatFail(text)
       ELSE /\ calls' = Append(calls, RespondCall(FALSE, ""))
            /\ IF ~response.has_text
               THEN ChatFail("expected string or bytes-like object")
               ELSE /\ http' = HttpResponse(200,
                        [response |-> transform_transcript_urls_to_youtube(response.output_text),
                         conversation_id |-> conv_id,
                         trace |-> [timings |-> ChatTimings]
                                   @@ extract_reasoning_trace(response)])
                    /\ pc' = "done"
    /\ UNCHANGED <<project_client, openai_client, handler, req, agent_name, conv_id,
                   events, chunks, answer, sent, full_text, first_text, trace>>
    /\ UNCHANGED <<streaming_extension, token_level, disconnected, harness, workers, stream, signals>>

\* ------------------------------------------------------------ chat_stream
\* Mutant: the except clause logs the error and yields nothing.
GenFail_Silent(text) ==
    /\ UNCHANGED <<events, chunks>>
    /\ pc' = "done"

\* The except clause of event_generator: one error frame, then the
\* generator returns (429-431).
GenFail(text) ==
    /\ events' = Append(events, [type |-> "error", text |-> text])
    /\ chunks' = Append(chunks, Frame([type |-> "error", text |-> text]))
    /\ pc' = "done"

\* Mutant: the body is validated before the extension is imported.
StreamBegin_ValidateFirst(body) ==
    /\ pc = "idle"
    /\ handler' = "chat_stream"
    /\ req' = body
    /\ FreshLocals
    /\ UNCHANGED <<streaming_extension, project_client, openai_client, harness, workers>>
    /\ IF ~body.json_ok \/ ~Truthy(body.message)
       THEN /\ http' = HttpResponse(400, [error |-> "Message is required"])
            /\ pc' = "done"
            /\ agent_name' = None
       ELSE IF ~streaming_extension
       THEN /\ http' = HttpResponse(501, [error |-> "Streaming not available"])
            /\ pc' = "done"
            /\ agent_name' = None
       ELSE /\ http' = StreamingResponse
            /\ pc' = "g_clients"
            /\ agent_name' = ResolveAgent(body)

\* Import of the streaming extension, parse, validate, route and return the
\* StreamingResponse (317-340, 433-440).
StreamBegin(body) ==
    /\ pc = "idle"
    /\ handler' = "chat_stream"
    /\ req' = body
    /\ FreshLocals
    /\ UNCHANGED <<streaming_extension, project_client, openai_client, harness, workers>>
    /\ IF ~streaming_extension
       THEN /\ http' = HttpResponse(501, [error |-> "Streaming not available"])
            /\ pc' = "done"
            /\ agent_name' = None
       ELSE IF ~body.json_ok \/ ~Truthy(body.message)
       THEN /\ http' = HttpResponse(400, [error |-> "Message is required"])
            /\ pc' = "done"
            /\ agent_name' = None
       ELSE /\ http' = StreamingResponse
            /\ pc' = "g_clients"
            /\ agent_name' = ResolveAgent(body)

\* _, openai_client = get_clients()  (346)
GenGetClients(built) ==
    /\ handler = "chat_stream" /\ pc = "g_clients"
    /\ LET r == get_clients(project_client, openai_client, built)
       IN  /\ project_client' = r.project
           /\ openai_client' = r.openai
           /\ IF r.raised # "" THEN GenFail(r.raised)
              ELSE /\ pc' = "g_conversation" /\ UNCHANGED <<events, chunks>>
    /\ UNCHANGED <<handler, req, agent_name, conv_id, calls, http, answer, sent,
                   full_text, first_text, trace>>
    /\ UNCHANGED <<streaming_extension, token_level, disconnected, harness, workers, stream, signals>>

\* Mutant: a conversation is created whether or not the request carries an id.
GenConversation_AlwaysCreate(ok, id, text) ==
    /\ handler = "chat_stream" /\ pc = "g_conversation"
    /\ IF openai_client = None
       THEN /\ GenFail(AttributeErrorText)
            /\ UNCHANGED <<conv_id, calls>>
       ELSE IF ok
       THEN /\ calls' = Append(calls, [op |-> "conversations.create", id |-> id, raised |-> ""])
            /\ conv_id' = id
            /\ pc' = "g_session"
            /\ UNCHANGED <<events, chunks>>
       ELSE /\ calls' = Append(calls, [op |-> "conversations.create", id |-> None, raised |-> text])
            /\ GenFail(text)
            /\ UNCHANGED conv_id
    /\ UNCHANGED <<project_client, openai_client, handler, req, agent_name, http,
                   answer, sent, full_text, first_text, trace>>
    /\ UNCHANGED <<streaming_extension, token_level, disconnected, harness, workers, stream, signals>>

\* if not conversation_id: ... conv_id = conversation.id else conv_id = conversation_id  (349-353)
GenConversation(ok, id, text) ==
    /\ handler = "chat_stream" /\ pc = "g_conversation"
    /\ IF Truthy(req.conversation_id)
       THEN /\ conv_id' = req.conversation_id
            /\ pc' = "g_session"
            /\ UNCHANGED <<calls, events, chunks>>
       ELSE IF openai_client = None
       THEN /\ GenFail(AttributeErrorText)
            /\ UNCHANGED <<conv_id, calls>>
       ELSE IF ok
       THEN /\ calls' = Append(calls, [op |-> "conversations.create", id |-> id, raised |-> ""])
            /\ conv_id' = id
            /\ pc' = "g_session"
            /\ UNCHANGED <<events, chunks>>
       ELSE /\ calls' = Append(calls, [op |-> "conversations.create", id |-> None, raised |-> text])
            /\ GenFail(text)
            /\ UNCHANGED conv_id
    /\ UNCHANGED <<project_client, openai_client, handler, req, agent_name, http,
                   answer, sent, full_text, first_text, trace>>
    /\ UNCHANGED <<streaming_extension, token_level, disconnected, harness, workers, stream, signals>>

\* Mutant: the session frame is not yielded.
GenYieldSession_Skipped ==
    /\ handler = "chat_stream" /\ pc = "g_session"
    /\ UNCHANGED <<events, chunks>>
    /\ pc' = "g_status"
    /\ UNCHANGED <<project_client, openai_client, handler, req, agent_name, conv_id,
                   calls, http, answer, sent, full_text, first_text, trace>>
    /\ UNCHANGED <<streaming_extension, token_level, disconnected, harness, workers, stream, signals>>

\* yield session  (356)
GenYieldSession ==
    /\ handler = "chat_stream" /\ pc = "g_session"
    /\ events' = Append(events, [type |-> "session", conversation_id |-> conv_id])
    /\ chunks' = Append(chunks, Frame([type |-> "session", conversation_id |-> conv_id]))
    /\ pc' = "g_status"
    /\ UNCHANGED <<project_client, openai_client, handler, req, agent_name, conv_id,
                   calls, http, answer, sent, full_text, first_text, trace>>
    /\ UNCHANGED <<streaming_extension, token_level, disconnected, harness, workers, stream, signals>>

\* yield status  (359)
GenYieldStatus ==
    /\ handler = "chat_stream" /\ pc = "g_status"
    /\ events' = Append(events, [type |-> "status", text |-> "Searching knowledge base..."])
    /\ chunks' = Append(chunks, Frame([type |-> "status", text |-> "Searching knowledge base..."]))
    /\ pc' = "g_respond"
    /\ UNCHANGED <<project_client, openai_client, handler, req, agent_name, conv_id,
                   calls, http, answer, sent, full_text, first_text, trace>>
    /\ UNCHANGED <<streaming_extension, token_level, disconnected, harness, workers, stream, signals>>

\* stream = openai_client.responses.create(..., stream=True) and the locals
\* set before the loop (362-377).  a is the answer the backend will stream;
\* deltas says whether it delivers it as text deltas, or only as the text of
\* the response its completed signal carries.
GenRespond(ok, a, deltas, text) ==
    /\ handler = "chat_stream" /\ pc = "g_respond"
    /\ IF openai_client = None
       THEN /\ GenFail(AttributeErrorText)
            /\ UNCHANGED <<calls, stream, token_level, answer, trace>>
       ELSE IF ~ok
       THEN /\ calls' = Append(calls, RespondCall(TRUE, text))
            /\ GenFail(text)
            /\ UNCHANGED <<stream, token_level, answer, trace>>
       ELSE /\ calls' = Append(calls, RespondCall(TRUE, ""))
            /\ stream' = "open"
            /\ token_level' = deltas
            /\ answer' = a
            /\ trace' = [InitialTrace EXCEPT !.agent = <<agent_name>>]
            /\ pc' = "g_loop"
            /\ UNCHANGED <<events, chunks>>
    /\ UNCHANGED <<project_client, openai_client, handler, req, agent_name, conv_id,
                   http, sent, full_text, first_text>>
    /\ UNCHANGED <<streaming_extension, disconnected, harness, workers, signals>>

\* Mutant: the delta frame carries the accumulated text.
GenTextDelta_Cumulative ==
    /\ handler = "chat_stream" /\ pc = "g_loop"
    /\ token_level /\ sent < Len(answer)
    /\ LET delta == answer[sent + 1]
       IN  /\ sent' = sent + 1
           /\ full_text' = full_text \o delta
           /\ events' = events
                \o (IF first_text
                    THEN <<[type |-> "status", text |-> "Generating answer..."]>>
                    ELSE <<>>)
                \o <<[type |-> "delta", text |-> full_text \o delta]>>
           /\ chunks' = chunks
                \o (IF first_text
                    THEN <<Frame([type |-> "status", text |-> "Generating answer..."])>>
                    ELSE <<>>)
                \o <<Frame([type |-> "delta", text |-> full_text \o delta])>>
           /\ first_text' = FALSE
    /\ UNCHANGED <<project_client, openai_client, handler, pc, req, agent_name,
                   conv_id, calls, http, answer, trace>>
    /\ UNCHANGED <<streaming_extension, token_level, disconnected, harness, workers, stream, signals>>

\* event_type == "response.output_text.delta"  (383-390)
GenTextDelta ==
    /\ handler = "chat_stream" /\ pc = "g_loop"
    /\ token_level /\ sent < Len(answer)
    /\ LET delta == answer[sent + 1]
       IN  /\ sent' = sent + 1
           /\ full_text' = full_text \o delta
           /\ events' = events
                \o (IF first_text
                    THEN <<[type |-> "status", text |-> "Generating answer..."]>>
                    ELSE <<>>)
                \o <<[type |-> "delta", text |-> delta]>>
           /\ chunks' = chunks
                \o (IF first_text
                    THEN <<Frame([type |-> "status", text |-> "Generating answer..."])>>
                    ELSE <<>>)
                \o <<Frame([type |-> "delta", text |-> delta])>>
           /\ first_text' = FALSE
    /\ UNCHANGED <<project_client, openai_client, handler, pc, req, agent_name,
                   conv_id, calls, http, answer, trace>>
    /\ UNCHANGED <<streaming_extension, token_level, disconnected, harness, workers, stream, signals>>

\* event_type == "response.mcp_call.arguments.delta": pass  (393-394)
GenMcpArgumentsDelta ==
    /\ handler = "chat_stream" /\ pc = "g_loop"
    /\ UNCHANGED vars

\* if intents: trace["query_intents"] = intents, inside the try whose except
\* passes on JSONDecodeError and AttributeError (397-404).
McpCompletedTrace(t, has_arguments, arguments) ==
    LET p == ParseIntents(arguments)
    IN  IF has_arguments /\ p.raised = "" /\ p.intents # <<>>
        THEN [t EXCEPT !.query_intents = p.intents]
        ELSE t

\* json.loads(event.arguments) raises TypeError, which the except does not name.
McpCompletedRaises(has_arguments, arguments) ==
    has_arguments /\ ParseIntents(arguments).raised = "type_error"

\* event_type == "response.mcp_call.completed"  (395-404).  has_arguments is
\* hasattr(event, "arguments").
GenMcpCompleted(has_arguments, arguments) ==
    /\ handler = "chat_stream" /\ pc = "g_loop"
    /\ IF McpCompletedRaises(has_arguments, arguments)
       THEN /\ GenFail("the JSON object must be str, bytes or bytearray")
            /\ UNCHANGED trace
       ELSE /\ trace' = McpCompletedTrace(trace, has_arguments, arguments)
            /\ UNCHANGED <<pc, events, chunks>>
    /\ UNCHANGED <<project_client, openai_client, handler, req, agent_name, conv_id,
                   calls, http, answer, sent, full_text, first_text>>
    /\ UNCHANGED <<streaming_extension, token_level, disconnected, harness, workers, stream, signals>>

\* trace["timings"] = {"total": elapsed} and the token usage of the
\* completed response (409-420).
CompletedTrace(t, usage) ==
    LET timed == [timings |-> [total |-> Ms]] @@ t
    IN  IF usage # NoUsage
        THEN [timed EXCEPT !.tokens = UsageTokens(usage)]
        ELSE timed

\* The done frame (422-425).
DoneFrame(text, t) ==
    [type |-> "done",
     full_text |-> transform_transcript_urls_to_youtube(text),
     trace |-> t]

\* event_type == "response.completed"  (407-425).  usage is NoUsage when the
\* completed response has no usage (or reading it raises).
GenCompleted(usage) ==
    /\ handler = "chat_stream" /\ pc = "g_loop"
    /\ signals < MaxCompleted
    /\ LET t    == CompletedTrace(trace, usage)
           done == DoneFrame(full_text, t)
       IN  /\ trace' = t
           /\ events' = Append(events, done)
           /\ chunks' = Append(chunks, Frame(done))
    /\ UNCHANGED <<project_client, openai_client, handler, pc, req, agent_name,
                   conv_id, calls, http, answer, sent, full_text, first_text>>
    /\ signals' = signals + 1 /\ UNCHANGED <<streaming_extension, token_level, disconnected, harness, workers, stream>>

\* Mutant: an event of an unrecognised type counts as the first fragment.
GenOtherEvent_ClearsFirst ==
    /\ handler = "chat_stream" /\ pc = "g_loop"
    /\ first_text' = FALSE
    /\ UNCHANGED <<streaming_extension, project_client, openai_client, handler, pc,
                   req, agent_name, conv_id, calls, http, events, chunks, stream,
                   token_level, answer, sent, signals, full_text, trace,
                   disconnected, harness, workers>>

\* An event of any other type, or without a type, matches no branch.
GenOtherEvent ==
    /\ handler = "chat_stream" /\ pc = "g_loop"
    /\ UNCHANGED vars

\* The backend stream is exhausted: the for loop ends and the generator
\* returns (427).
GenStreamEnd ==
    /\ handler = "chat_stream" /\ pc = "g_loop"
    /\ pc' = "done"
    /\ UNCHANGED <<project_client, openai_client, handler, req, agent_name, conv_id,
                   calls, http, events, chunks, answer, sent, full_text, first_text, trace>>
    /\ stream' = "exhausted" /\ UNCHANGED <<streaming_extension, token_level, disconnected, harness, workers, signals>>

\* Iterating the backend stream raises.
GenStreamRaise(text) ==
    /\ handler = "chat_stream" /\ pc = "g_loop"
    /\ GenFail(text)
    /\ UNCHANGED <<project_client, openai_client, handler, req, agent_name, conv_id,
                   calls, http, answer, sent, full_text, first_text, trace>>
    /\ stream' = "raised" /\ UNCHANGED <<streaming_extension, token_level, disconnected, harness, workers, signals>>

\* The caller disconnects while the response is streamed: the host stops
\* iterating event_generator and closes it.  GeneratorExit is not an
\* Exception, so the except clause (429) does not run and nothing more is
\* yielded; the generator has no finally clause and never calls
\* stream.close(), so the backend stream stays as it was.
Disconnect ==
    /\ handler = "chat_stream" /\ http = StreamingResponse
    /\ pc \in {"g_clients", "g_conversation", "g_session", "g_status",
               "g_respond", "g_loop"}
    /\ disconnected' = TRUE
    /\ pc' = "done"
    /\ UNCHANGED <<streaming_extension, project_client, openai_client, handler, req,
                   agent_name, conv_id, calls, http, events, chunks, stream,
                   token_level, answer, sent, signals, full_text, first_text, trace,
                   harness, workers>>

\* The response has been delivered (the handler returned, or the generator
\* was exhausted); the locals are gone and the worker takes the next
\* request.  The module globals stay.
Return ==
    /\ pc = "done"
    /\ pc' = "idle"
    /\ handler' = None
    /\ req' = InvalidJson
    /\ agent_name' = None
    /\ http' = NoResponse
    /\ FreshLocals
    /\ UNCHANGED <<streaming_extension, project_client, openai_client, harness, workers>>

\* Outcomes of a backend call: success with what it returns, or failure
\* with an error text.
CreateOutcomes ==
    [ok : {TRUE}, id : MintedIds, text : {""}] \cup
    [ok : {FALSE}, id : {None}, text : BackendErrors]

StreamOutcomes ==
    [ok : {TRUE}, answer : Answers, deltas : BOOLEAN, text : {""}] \cup
    [ok : {FALSE}, answer : {<<>>}, deltas : {TRUE}, text : BackendErrors]

RespondOutcomes(agent) ==
    [ok : {TRUE}, response : Responses(agent), text : {""}] \cup
    [ok : {FALSE}, response : {CHOOSE r \in Responses(agent) : TRUE}, text : BackendErrors]

\* ------------------------------------------------------------------- Next
Next ==
    \/ \E body \in Requests : ChatBegin(body)
    \/ \E built \in Builds : ChatGetClients(built)
    \/ \E o \in CreateOutcomes : ChatConversation(o.ok, o.id, o.text)
    \/ \E o \in RespondOutcomes(agent_name) : ChatRespond(o.ok, o.response, o.text)
    \/ \E body \in Requests : StreamBegin(body)
    \/ \E built \in Builds : GenGetClients(built)
    \/ \E o \in CreateOutcomes : GenConversation(o.ok, o.id, o.text)
    \/ GenYieldSession
    \/ GenYieldStatus
    \/ \E o \in StreamOutcomes : GenRespond(o.ok, o.answer, o.deltas, o.text)
    \/ GenTextDelta
    \/ GenMcpArgumentsDelta
    \/ \E has_arguments \in BOOLEAN, arguments \in StreamArguments :
          GenMcpCompleted(has_arguments, arguments)
    \/ \E usage \in StreamUsages : GenCompleted(usage)
    \/ GenOtherEvent
    \/ GenStreamEnd
    \/ \E text \in BackendErrors : GenStreamRaise(text)
    \/ Disconnect
    \/ Return

Spec == Init /\ [][Next]_vars

\* ------------------------------------------------- pure functions, applied
\* The rewriter and the trace extractor applied to inputs of any shape,
\* outside a request.
locals == <<handler, pc, req, agent_name, conv_id, calls, http, events, chunks,
            stream, token_level, answer, sent, signals, full_text, first_text, trace,
            disconnected>>

gateway == <<streaming_extension, project_client, openai_client, locals>>

LinkOpen == <<"[", "Intro", "]", "(">>

Stocking == <<"Stocking">>

\* "Tools (part1)" percent-encoded, as it stands in a blob URL.
ToolsEncoded == <<"Tools", "%20", "%28", "part1", "%29">>

Unlisted == <<"Unlisted">>

MdLink(name) == LinkOpen \o <<PRE>> \o name \o <<".md", ")">>

BareUrl(name) == <<PRE>> \o name \o <<".md">>

\* The pieces input texts are put together from: whole links and URLs, and
\* the parts that make broken and ambiguous ones.
Pieces ==
    { MdLink(Stocking), MdLink(ToolsEncoded), MdLink(Unlisted),
      BareUrl(Stocking), BareUrl(Unlisted),
      LinkOpen, <<PRE, "Stocking">>, <<PRE, "Unlisted">>, <<".md">>, <<")">>,
      <<" ">>, <<"\n">>, <<"x">>, <<"-">>, <<"]">>, <<",">>,
      <<"0", "2", ":", "2", "8">>,
      <<"0", "2", ":", "2", "8", "-", "0", "2", ":", "3", "8">>,
      <<"7", ":", "0", "5">> }

Texts ==
    { Flatten(ps) : ps \in UNION { [1..n -> Pieces] : n \in 0..MaxPieces } }

\* The response objects the extractor is given: those of the respond call,
\* and one whose dictionary has none of the optional fields.
TraceInputs ==
    Responses("davenport-fast") \cup
    { [to_dict_ok |-> TRUE, dict |-> <<>>, has_text |-> TRUE, output_text |-> <<>>] }

\* Tool-invocation records of one backend run.
RecordLists ==
    { <<>>,
      << [type |-> "mcp_call", arguments |-> "{intents:[q1,q2]}",
          output |-> "Retrieved 3 documents"] >>,
      << [type |-> "mcp_call", arguments |-> "{intents:[q1,q2]}",
          output |-> "Retrieved 3 documents"],
         [type |-> "mcp_call", arguments |-> "{}",
          output |-> "Retrieved 7 documents"] >>,
      << [type |-> "mcp_call", arguments |-> "{not json",
          output |-> "Retrieved 3 documents"],
         [type |-> "mcp_call", arguments |-> "{intents:[q3]}"] >>,
      << [type |-> "mcp_call", arguments |-> "[]",
          output |-> "Retrieved 3 documents"],
         [type |-> "mcp_call", arguments |-> "{intents:[q3]}"] >> }

\* One request and what the backend produces for it: the id it mints for a
\* new conversation, whether the response names its agent, the tool
\* records, the usage and the answer as the fragments it is streamed in.
Backends ==
    [body : { [json_ok |-> TRUE, message |-> "hi", conversation_id |-> "conv_abc",
               reasoning_level |-> "fast"],
              [json_ok |-> TRUE, message |-> "hi", conversation_id |-> None,
               reasoning_level |-> Absent] },
     minted : MintedIds,
     names_agent : BOOLEAN,
     records : RecordLists,
     usage : Usages \cup {NoUsage},
     fragments : Answers]

\* conversation_id = body.get("conversation_id"), replaced by the id of a
\* new conversation when it is not truthy.
ResolveConversation(body, minted) ==
    IF Truthy(body.conversation_id) THEN body.conversation_id ELSE minted

\* The response object the blocking respond call returns for b.
BlockingResponse(b) ==
    LET none == [k \in {} |-> 0]
        d == [output |-> b.records \o << [type |-> "message"] >>]
             @@ (IF b.names_agent
                 THEN [agent |-> [name |-> ResolveAgent(b.body), version |-> "3"]]
                 ELSE none)
             @@ (IF b.usage # NoUsage THEN [usage |-> b.usage] ELSE none)
    IN  [to_dict_ok |-> TRUE, dict |-> d, has_text |-> TRUE,
         output_text |-> Flatten(b.fragments)]

\* What chat answers for b when every backend call succeeds.
BlockingReply(b) ==
    [agent_name |-> ResolveAgent(b.body),
     response |-> transform_transcript_urls_to_youtube(BlockingResponse(b).output_text),
     conversation_id |-> ResolveConversation(b.body, b.minted),
     trace |-> [timings |-> ChatTimings] @@ extract_reasoning_trace(BlockingResponse(b))]

\* The completed-call events of the stream, one per tool record, applied in
\* order to the trace t; raised when one of them escapes the inner except.
RECURSIVE StreamRecords(_, _)
StreamRecords(records, t) ==
    IF records = <<>> THEN [raised |-> FALSE, trace |-> t]
    ELSE LET has_arguments == "arguments" \in DOMAIN Head(records)
             arguments == IF has_arguments THEN Head(records).arguments ELSE None
         IN  IF McpCompletedRaises(has_arguments, arguments)
             THEN [raised |-> TRUE, trace |-> t]
             ELSE StreamRecords(Tail(records),
                                McpCompletedTrace(t, has_arguments, arguments))

\* What event_generator sends for b when every backend call succeeds: the
\* session event's conversation id, the agent of the respond call and the
\* terminal event.
StreamingReply(b) ==
    LET r == StreamRecords(b.records,
                           [InitialTrace EXCEPT !.agent = <<ResolveAgent(b.body)>>])
    IN  [agent_name |-> ResolveAgent(b.body),
         conversation_id |-> ResolveConversation(b.body, b.minted),
         last |-> IF r.raised
                  THEN [type |-> "error",
                        text |-> "the JSON object must be str, bytes or bytearray"]
                  ELSE DoneFrame(Flatten(b.fragments), CompletedTrace(r.trace, b.usage))]

PureInit ==
    /\ streaming_extension = TRUE
    /\ Cold
    /\ workers = NoWorkers
    /\ harness \in { [pc |-> "text", text |-> t] : t \in Texts } \cup
                   { [pc |-> "response", response |-> r] : r \in TraceInputs } \cup
                   { [pc |-> "backend", backend |-> b] : b \in Backends }

\* final_text = transform_transcript_urls_to_youtube(text)
Rewrite ==
    /\ harness.pc = "text"
    /\ harness' = [pc |-> "once", text |-> harness.text,
                   once |-> transform_transcript_urls_to_youtube(harness.text)]
    /\ UNCHANGED <<gateway, workers>>

\* The rewriter applied to its own output.
RewriteAgain ==
    /\ harness.pc = "once"
    /\ harness' = [pc |-> "twice", text |-> harness.text, once |-> harness.once,
                   twice |-> transform_transcript_urls_to_youtube(harness.once)]
    /\ UNCHANGED <<gateway, workers>>

\* trace = extract_reasoning_trace(response)
Extract ==
    /\ harness.pc = "response"
    /\ harness' = [pc |-> "trace", response |-> harness.response,
                   trace |-> extract_reasoning_trace(harness.response)]
    /\ UNCHANGED <<gateway, workers>>

\* The same request and backend output served by chat and by chat_stream.
ServeBothModes ==
    /\ harness.pc = "backend"
    /\ harness' = [pc |-> "served", backend |-> harness.backend,
                   blocking |-> BlockingReply(harness.backend),
                   streaming |-> StreamingReply(harness.backend)]
    /\ UNCHANGED <<gateway, workers>>

PureNext == Rewrite \/ RewriteAgain \/ Extract \/ ServeBothModes

PureSpec == PureInit /\ [][PureNext]_vars

\* ------------------------------------------- get_clients, thread by thread
\* The host runs synchronous handlers on a thread pool; get_clients has no
\* lock, so threads interleave between its statements.  The constructors
\* succeed here; their failures are in Spec.
Threads == 1..NumThreads

ClientsInit ==
    /\ streaming_extension = TRUE
    /\ Cold
    /\ harness = HarnessOff
    /\ workers = [t \in Threads |-> [pc |-> "idle", got |-> <<>>]]

\* A request on thread t calls get_clients().
Enter(t) ==
    /\ workers[t].pc \in {"idle", "returned"}
    /\ workers' = [workers EXCEPT ![t] = [pc |-> "test", got |-> <<>>]]
    /\ UNCHANGED <<streaming_extension, project_client, openai_client, locals, harness>>

\* if _project_client is None:  (64)
TestCache(t) ==
    /\ workers[t].pc = "test"
    /\ workers' = [workers EXCEPT ![t].pc =
                       IF project_client = None THEN "project" ELSE "return"]
    /\ UNCHANGED <<streaming_extension, project_client, openai_client, locals, harness>>

\* _project_client = AIProjectClient(...)  (65-69)
AssignProject(t) ==
    /\ workers[t].pc = "project"
    /\ project_client' = "client"
    /\ workers' = [workers EXCEPT ![t].pc = "openai"]
    /\ UNCHANGED <<streaming_extension, openai_client, locals, harness>>

\* _openai_client = _project_client.get_openai_client()  (70)
AssignOpenai(t) ==
    /\ workers[t].pc = "openai"
    /\ openai_client' = "client"
    /\ workers' = [workers EXCEPT ![t].pc = "return"]
    /\ UNCHANGED <<streaming_extension, project_client, locals, harness>>

\* return _project_client, _openai_client  (72)
ReturnClients(t) ==
    /\ workers[t].pc = "return"
    /\ workers' = [workers EXCEPT ![t] =
                       [pc |-> "returned", got |-> <<project_client, openai_client>>]]
    /\ UNCHANGED <<streaming_extension, project_client, openai_client, locals, harness>>

ClientsNext ==
    \E t \in Threads :
        \/ Enter(t)
        \/ TestCache(t)
        \/ AssignProject(t)
        \/ AssignOpenai(t)
        \/ ReturnClients(t)

ClientsSpec == ClientsInit /\ [][ClientsNext]_vars

\* ----------------------------------------------------------------- claims
Types(es) == [i \in 1..Len(es) |-> es[i].type]

IsTerminal(e) == e.type \in {"done", "error"}

Count(es, type) == Cardinality({i \in 1..Len(es) : es[i].type = type})

IsDelta(e) == e.type = "delta"

\* The texts of the delta frames among the first n frames, in order.
DeltaTexts(n) ==
    LET ds == SelectSeq(SubSeq(events, 1, n), IsDelta)
    IN  [i \in 1..Len(ds) |-> ds[i].text]

\* The request passed validation and chat_stream returned the event stream.
StreamOpened == handler = "chat_stream" /\ http = StreamingResponse

\* ... and event_generator has returned.
StreamClosed == StreamOpened /\ pc = "done"

Creates == {i \in 1..Len(calls) : calls[i].op = "conversations.create"}

Responds == {i \in 1..Len(calls) : calls[i].op = "responses.create"}

\* C1: in a streaming response at most one terminal frame (done or error) is
\* emitted and no frame follows it, whatever the backend stream delivers,
\* also after its completed signal.
C1_TerminalIsLast ==
    StreamOpened =>
        \A i \in 1..Len(events) : IsTerminal(events[i]) => i = Len(events)

\* C2: an opened streaming response that has ended carries exactly one done
\* or error frame; it never closes without a terminal frame.
C2_ClosedHasOneTerminal ==
    StreamClosed =>
        Cardinality({i \in 1..Len(events) : IsTerminal(events[i])}) = 1

\* C3 as stated: every streaming response carries exactly one session frame,
\* and it is the first frame, also when client initialisation or conversation
\* creation fails.
C3_SessionOnEveryPath ==
    StreamClosed =>
        /\ Count(events, "session") = 1
        /\ events[1].type = "session"

\* C3 amended: a session frame is only ever the first frame (so there is at
\* most one); while the caller stays connected, once the conversation id is
\* resolved and the generator is past its first yield, the first frame is
\* the session frame carrying that id; when client initialisation or
\* conversation creation fails, the stream is the single error frame and
\* carries no session frame.
C3_SessionFirstOnceResolved ==
    StreamOpened =>
        /\ \A i \in 1..Len(events) : events[i].type = "session" => i = 1
        /\ (~disconnected /\ conv_id # None
                /\ pc \notin {"g_clients", "g_conversation", "g_session"})
              => /\ Len(events) >= 1
                 /\ events[1] = [type |-> "session", conversation_id |-> conv_id]
        /\ (~disconnected /\ conv_id = None /\ pc = "done")
              => /\ Types(events) = <<"error">>
                 /\ Responds = {}

C3_Witness ==
    /\ StreamClosed
    /\ conv_id # None
    /\ Len(events) >= 4
    /\ events[1].type = "session"
    /\ Count(events, "session") = 1

C8_NoPartialBody ==
    handler = "chat" =>
        IF pc # "done" THEN http = NoResponse
        ELSE /\ http.mimetype = "application/json"
             /\ \/ /\ http.status_code = 200
                   /\ DOMAIN http.body = {"response", "conversation_id", "trace"}
                \/ /\ http.status_code \in {400, 500}
                   /\ DOMAIN http.body = {"error"}

C8_Witness ==
    /\ handler = "chat"
    /\ pc = "done"
    /\ http.status_code = 200
    /\ http.body.trace.query_intents = <<"q1", "q2">>

FooBarBaz == <<<<"Foo">>, <<"Bar">>, <<"Baz">>>>

\* The fragments of the answer have all been delivered and the first
\* completed signal has just followed them.
FragmentsThenSignal ==
    /\ StreamOpened
    /\ stream = "open"
    /\ pc = "g_loop"
    /\ sent = Len(answer)
    /\ signals = 1
    /\ events[Len(events)].type = "done"

\* The delta frames are the delivered fragments, one each and in order, and
\* every done frame carries the rewrite of their concatenation; one done
\* frame per completed signal.
DeltasAndDone ==
    StreamOpened =>
        /\ DeltaTexts(Len(events)) = SubSeq(answer, 1, sent)
        /\ Count(events, "done") = signals
        /\ \A i \in 1..Len(events) :
              events[i].type = "done"
                 => events[i].full_text =
                       transform_transcript_urls_to_youtube(Flatten(DeltaTexts(i)))

\* C9 as stated: ... and for Foo, Bar, Baz the frames are session, status,
\* three deltas and a final done with full_text FooBarBaz.
C9_SixFrames ==
    /\ DeltasAndDone
    /\ (FragmentsThenSignal /\ answer = FooBarBaz)
          => /\ Types(events) = <<"session", "status", "delta", "delta", "delta", "done">>
             /\ events[Len(events)].full_text = <<"Foo", "Bar", "Baz">>

\* C9 amended: ... and for Foo, Bar, Baz the frames are session, status, a
\* second status emitted before the first delta, three deltas and a final
\* done with full_text FooBarBaz.
C9_DeltasAndDone ==
    /\ DeltasAndDone
    /\ (FragmentsThenSignal /\ answer = FooBarBaz)
          => /\ Types(events) = <<"session", "status", "status", "delta", "delta",
                                  "delta", "done">>
             /\ events[3].text = "Generating answer..."
             /\ <<events[4].text, events[5].text, events[6].text>> = FooBarBaz
             /\ events[7].full_text = <<"Foo", "Bar", "Baz">>

C9_Witness ==
    /\ FragmentsThenSignal
    /\ answer = FooBarBaz
    /\ Len(events) = 7
    /\ events[7].full_text = <<"Foo", "Bar", "Baz">>

\* The backend stream raised after exactly one text fragment and before any
\* completed signal.
RaisedAfterOneFragment ==
    /\ StreamClosed
    /\ stream = "raised"
    /\ sent = 1
    /\ signals = 0

\* C10 as stated: the frames are then exactly session, status, delta, error.
C10_FourFrames ==
    RaisedAfterOneFragment =>
        Types(events) = <<"session", "status", "delta", "error">>

\* C10 amended: the frames are then exactly session, status, a second status
\* emitted before the delta, the delta with the fragment, and one error with
\* the text of the exception.
C10_FiveFrames ==
    RaisedAfterOneFragment =>
        /\ Types(events) = <<"session", "status", "status", "delta", "error">>
        /\ events[4].text = answer[1]
        /\ events[5].text \in BackendErrors

C10_Witness ==
    /\ RaisedAfterOneFragment
    /\ Len(events) = 5
    /\ events[4] = [type |-> "delta", text |-> <<"Foo">>]
    /\ events[5].type = "error"

\* The text contains an internal transcript URL whose percent-decoded name
\* has an entry in the table.
HasMappedUrl(text) ==
    \E i \in 1..Len(text), e \in 1..Len(text) :
        /\ i < e
        /\ text[i] = PRE
        /\ text[e] = ".md"
        /\ unquote(SubSeq(text, i + 1, e - 1)) \in DOMAIN YOUTUBE_VIDEO_MAP

TimestampCases ==
    { [text |-> <<"0", "2", ":", "2", "8">>, offset |-> <<"1", "4", "8">>],
      [text |-> <<"0", "2", ":", "2", "8", "-", "0", "2", ":", "3", "8">>,
       offset |-> <<"1", "4", "8">>],
      [text |-> <<"7", ":", "0", "5">>, offset |-> <<"4", "2", "5">>] }

\* Mapped names as they stand in a URL, with their ids.
MappedCases ==
    { [name |-> Stocking, id |-> "22tb3sbqquM"],
      [name |-> ToolsEncoded, id |-> "rINsPjoNOlA"] }

\* What may stand between a link and its timestamp (\s*).
Gaps == {<<>>, <<" ">>, <<"\n">>}

\* Prose around a link: text that neither opens a link nor continues a
\* timestamp.
Prose == {<<>>, <<"x">>, <<" ">>, <<"\n">>, <<")">>, <<"]">>, <<".md">>}

UnmappedLinks == {MdLink(Unlisted), BareUrl(Unlisted) \o <<" ">>, BareUrl(Unlisted) \o <<")">>}

IsPrefix(p, t) == Len(p) <= Len(t) /\ SubSeq(t, 1, Len(p)) = p

\* C13: a text in which no internal transcript URL has a (percent-decoded)
\* name in the table is returned unchanged; and an unmapped link keeps every
\* token also when the text after it is rewritten.
C13_UnmappedUnchanged ==
    harness.pc \in {"once", "twice"} =>
        /\ ~HasMappedUrl(harness.text) => harness.once = harness.text
        /\ \A u \in UnmappedLinks :
               IsPrefix(u, harness.text) => IsPrefix(u, harness.once)

\* An unmapped markdown link with a timestamp and an unmapped bare URL went
\* through both passes untouched.
C13_Witness ==
    /\ harness.pc = "once"
    /\ harness.text = MdLink(Unlisted) \o <<"0", "2", ":", "2", "8">> \o BareUrl(Unlisted)
    /\ harness.once = harness.text

\* The response converts to a dictionary that has none of the optional
\* fields agent, usage and output.
MissingOptionalFields(response) ==
    /\ response.to_dict_ok
    /\ \A f \in {"agent", "usage", "output"} : f \notin DOMAIN response.dict

\* C14: extract_reasoning_trace returns a trace for every response shape,
\* also when to_dict() fails, and for a response missing all optional fields
\* the trace has sources_found 0, no query intents and the token counters
\* input, output and total all 0.
C14_ZeroCounters ==
    harness.pc = "trace" =>
        /\ DOMAIN harness.trace = {"agent", "query_intents", "sources_found", "tokens"}
        /\ MissingOptionalFields(harness.response)
              => /\ harness.trace.sources_found = 0
                 /\ harness.trace.query_intents = <<>>
                 /\ harness.trace.tokens = [input |-> 0, output |-> 0, total |-> 0]

EventTypes == {"session", "status", "delta", "done", "error"}

\* C15: every chunk written to an opened streaming response is one frame
\* "data: <json>" followed by a blank line, its JSON object is the event
\* yielded at that point and carries one of the five type tags; the response
\* has media type text/event-stream, Cache-Control no-cache and
\* X-Accel-Buffering no.
C15_Framing ==
    StreamOpened =>
        /\ Len(chunks) = Len(events)
        /\ \A i \in 1..Len(chunks) :
               /\ chunks[i] = [line |-> <<"data: ", events[i]>>, then |-> "\n\n"]
               /\ chunks[i].line[2].type \in EventTypes
        /\ http.media_type = "text/event-stream"
        /\ http.headers.Cache_Control = "no-cache"
        /\ http.headers.X_Accel_Buffering = "no"

\* A response in which frames of all five types were written.
C15_Witness ==
    /\ StreamClosed
    /\ {chunks[i].line[2].type : i \in 1..Len(chunks)} = EventTypes

\* The step issues the streaming respond call.
IssuesRespond ==
    /\ handler = "chat_stream"
    /\ Len(calls') = Len(calls) + 1
    /\ calls'[Len(calls')].op = "responses.create"

\* The respond call was issued and it, or the stream it returned, failed.
RespondFailed ==
    /\ StreamOpened
    /\ \/ \E i \in Responds : calls[i].raised # ""
       \/ stream = "raised"

\* C16: when the streaming respond call is issued the session frame with the
\* resolved conversation id has already been yielded, so in every run where
\* that call or its stream fails the session frame is the first frame the
\* caller received, ahead of the error frame.
C16_SessionBeforeRespond ==
    /\ [][IssuesRespond =>
            /\ Len(events) >= 1
            /\ events[1] = [type |-> "session",
                            conversation_id |-> calls'[Len(calls')].conversation]]_vars
    /\ [](RespondFailed =>
            /\ events[1] = [type |-> "session", conversation_id |-> conv_id]
            /\ events[Len(events)].type = "error"
            /\ Len(events) >= 3)

\* The respond call itself raised: the caller has session, status, error.
C16_Witness ==
    /\ StreamClosed
    /\ \E i \in Responds : calls[i].raised = "rate limit exceeded"
    /\ events = << [type |-> "session", conversation_id |-> conv_id],
                   [type |-> "status", text |-> "Searching knowledge base..."],
                   [type |-> "error", text |-> "rate limit exceeded"] >>

\* C17: when the backend stream ends without a completed signal after at
\* least one text fragment, and the caller is still there, the last frame is
\* a done frame carrying the accumulated text and an empty trace.
C17_DefensiveDone ==
    (StreamClosed /\ ~disconnected /\ stream = "exhausted" /\ signals = 0 /\ sent >= 1)
        => LET last == events[Len(events)]
           IN  /\ last.type = "done"
               /\ last.full_text \in
                      {full_text, transform_transcript_urls_to_youtube(full_text)}
               /\ last.trace.query_intents = <<>>
               /\ last.trace.sources_found = 0

\* C18: when the backend delivers no text fragment and its completed signal
\* carries the whole answer, the full_text of every done frame is the rewrite
\* of that answer.
C18_FullTextFallback ==
    (StreamOpened /\ ~token_level /\ sent = 0) =>
        \A i \in 1..Len(events) :
            events[i].type = "done" =>
                events[i].full_text =
                    transform_transcript_urls_to_youtube(Flatten(answer))

\* C19: once the caller has disconnected the generator is closed, and the
\* backend stream it had opened is not left open.
C19_ReleasedOnDisconnect ==
    disconnected => (pc = "done" /\ stream # "open")

\* C20: every get_clients call that returns, under every interleaving of the
\* threads, returns an initialised project client and an initialised openai
\* client.
C20_InitialisedPair ==
    \A t \in DOMAIN workers :
        workers[t].pc = "returned" => workers[t].got = <<"client", "client">>

\* chat got past validation and has answered from inside its try block.
ChatAnswered ==
    /\ handler = "chat" /\ pc = "done"
    /\ http.status_code \in {200, 500}

\* C21: whenever chat answers from its try block, with the backend call
\* succeeding (200) or a call failing (500), the body carries trace.timings
\* with the durations of session resolution, backend call and total.
C21_TimingsOnEveryPath ==
    ChatAnswered =>
        /\ "trace" \in DOMAIN http.body
        /\ "timings" \in DOMAIN http.body.trace
        /\ {"conversation_create", "agent_response", "total"}
               \subseteq DOMAIN http.body.trace.timings

\* The trace has its five fields, and its token usage the three counters.
TraceComplete(t) ==
    /\ {"agent", "query_intents", "sources_found", "tokens", "timings"}
           \subseteq DOMAIN t
    /\ DOMAIN t.tokens = {"input", "output", "total"}

\* C22: the trace of every blocking 200 body and of every streaming done
\* frame has backend identity, query intents, source count, token usage
\* with the counters input, output and total, and timings, also when the
\* extraction failed in part or the backend reported no usage.
C22_TraceComplete ==
    /\ (handler = "chat" /\ pc = "done" /\ http.status_code = 200)
          => TraceComplete(http.body.trace)
    /\ StreamOpened =>
          \A i \in 1..Len(events) :
              events[i].type = "done" => TraceComplete(events[i].trace)

\* The tool-invocation records of a response dictionary, in order.
IsMcpCall(item) == item.type = "mcp_call"

McpCalls(d) == IF "output" \in DOMAIN d THEN SelectSeq(d.output, IsMcpCall) ELSE <<>>

ArgumentsOf(item) == IF "arguments" \in DOMAIN item THEN item.arguments ELSE "{}"

OutputOf(item) == IF "output" \in DOMAIN item THEN item.output ELSE ""

\* The intent list of the last record whose arguments parse into the
\* expected structure; the count of the last record whose output reads
\* "Retrieved N documents".
LastIntents(records) ==
    LET P == {k \in 1..Len(records) : ParseIntents(ArgumentsOf(records[k])).raised = ""}
    IN  IF P = {} THEN <<>>
        ELSE ParseIntents(ArgumentsOf(records[CHOOSE k \in P : \A j \in P : j <= k])).intents

LastCount(records) ==
    LET P == {k \in 1..Len(records) : RetrievedCount(OutputOf(records[k])) >= 0}
    IN  IF P = {} THEN 0
        ELSE RetrievedCount(OutputOf(records[CHOOSE k \in P : \A j \in P : j <= k]))

\* C23: a tool-invocation record whose argument string does not parse into
\* the expected intents structure only loses its intents: the source count
\* of that record and the intents and counts of the later records are still
\* extracted.
C23_UnparsableOnlyOmitsIntents ==
    (harness.pc = "trace" /\ harness.response.to_dict_ok) =>
        LET records == McpCalls(harness.response.dict)
        IN  (\E k \in 1..Len(records) :
                 ParseIntents(ArgumentsOf(records[k])).raised # "")
            => /\ harness.trace.sources_found = LastCount(records)
               /\ harness.trace.query_intents = LastIntents(records)

\* A request with a message has been handled to its end by chat, or by
\* chat_stream on a host with the streaming extension.
ValidRequestDone ==
    /\ pc = "done"
    /\ handler \in {"chat", "chat_stream"}
    /\ req.json_ok /\ Truthy(req.message)
    /\ handler = "chat_stream" => http = StreamingResponse

\* The respond call at position i carries the resolved conversation id, the
\* message, the resolved agent and tool_choice required.
WellFormedRespond(i) ==
    /\ calls[i].conversation = conv_id
    /\ conv_id # None
    /\ calls[i].input = req.message
    /\ calls[i].agent = [name |-> ResolveAgent(req), type |-> "agent_reference"]
    /\ calls[i].tool_choice = "required"
    /\ calls[i].stream = (handler = "chat_stream")

\* C24 as stated: each valid request issues exactly one respond call, with
\* the resolved conversation id, the message, the resolved agent and
\* tool_choice required.
C24_ExactlyOneRespond ==
    ValidRequestDone =>
        /\ Cardinality(Responds) = 1
        /\ \A i \in Responds : WellFormedRespond(i)

\* C24 amended: a request issues at most one respond call, whatever the
\* backend returns, and every respond call is well formed; a valid request
\* whose conversation id was resolved with a client at hand, and whose
\* caller stayed connected, issues exactly one.
C24_AtMostOneRespond ==
    /\ Cardinality(Responds) <= 1
    /\ \A i \in Responds : WellFormedRespond(i)
    /\ (ValidRequestDone /\ conv_id # None /\ openai_client # None /\ ~disconnected)
          => Cardinality(Responds) = 1

\* A stream that went on after its completed signal and delivered a second
\* one: still the one respond call.
C24_Witness ==
    /\ ValidRequestDone
    /\ handler = "chat_stream"
    /\ signals = 2
    /\ Cardinality(Responds) = 1
    /\ \A i \in Responds : WellFormedRespond(i) /\ calls[i].raised = ""

\* What may follow a bare URL in prose: nothing, white space, punctuation,
\* a timestamp.
AfterBare ==
    { <<>>, <<" ">>, <<"\n">>, <<",">>, <<")">>,
      <<" ", "0", "2", ":", "2", "8">>, <<"0", "2", ":", "2", "8">> }

\* What may stand before a bare URL: nothing or prose.
BeforeBare == { <<>>, <<" ">>, <<"x">>, <<"\n">> }

\* C25: an internal transcript URL outside markdown link syntax becomes
\* the external URL of the mapped id, without &t= also when a timestamp
\* stands next to it, if its percent-decoded name is in the table, and stays
\* as it is otherwise.
C25_BareUrl ==
    harness.pc \in {"once", "twice"} =>
        \A before \in BeforeBare, after \in AfterBare :
            /\ \A m \in MappedCases :
                   harness.text = before \o BareUrl(m.name) \o after
                   => harness.once = before \o <<YT, m.id>> \o after
            /\ harness.text = before \o BareUrl(Unlisted) \o after
                   => harness.once = harness.text

\* C26: on a host where the streaming extension does not import, chat_stream
\* answers every request body with a plain JSON 501 carrying only an error,
\* opens no stream, writes no frame and issues no backend call.
C26_Unavailable501 ==
    (handler = "chat_stream" /\ ~streaming_extension) =>
        /\ pc = "done"
        /\ http.status_code = 501
        /\ http.mimetype = "application/json"
        /\ DOMAIN http.body = {"error"}
        /\ calls = <<>>
        /\ events = <<>> /\ chunks = <<>>
        /\ stream = "none"

\* A request without a message, on such a host, answered 501.
C26_Witness ==
    /\ handler = "chat_stream" /\ ~streaming_extension
    /\ req.json_ok /\ req.message = None
    /\ http.status_code = 501

\* C27: for the same request and the same backend output the streaming done
\* event's full_text equals the blocking response text, both modes use the
\* same resolved agent and conversation id, and their traces report the
\* same backend identity, query intents and token counters.
BothServed == harness.pc = "served" /\ harness.streaming.last.type = "done"

C27_ModesAgree ==
    BothServed =>
        /\ harness.streaming.last.full_text = harness.blocking.response
        /\ harness.streaming.agent_name = harness.blocking.agent_name
        /\ harness.streaming.conversation_id = harness.blocking.conversation_id
        /\ harness.streaming.last.trace.agent = harness.blocking.trace.agent
        /\ harness.streaming.last.trace.query_intents
               = harness.blocking.trace.query_intents
        /\ harness.streaming.last.trace.tokens = harness.blocking.trace.tokens

\* The parts of the agreement that do not involve the trace.
C27_TextAgentConversationAgree ==
    BothServed =>
        /\ harness.streaming.last.full_text = harness.blocking.response
        /\ harness.streaming.agent_name = harness.blocking.agent_name
        /\ harness.streaming.conversation_id = harness.blocking.conversation_id
        /\ harness.streaming.last.trace.tokens = harness.blocking.trace.tokens

\* The backend identity differs whenever the response names its agent.
C27_IdentityDiffers ==
    (BothServed /\ harness.backend.names_agent) =>
        harness.streaming.last.trace.agent # harness.blocking.trace.agent

\* The query intents agree unless a later record parses to an empty list.
C27_IntentsDiffer ==
    /\ BothServed
    /\ harness.streaming.last.trace.query_intents
           # harness.blocking.trace.query_intents

\* C28: in streaming mode, when client initialisation or conversation
\* creation fails, the stream consists of exactly one error event: no
\* session, status or delta event is emitted and no respond call is issued.
FailedBeforeSession == StreamClosed /\ ~disconnected /\ conv_id = None

C28_OnlyErrorBeforeSession ==
    FailedBeforeSession =>
        /\ Len(events) = 1 /\ events[1].type = "error"
        /\ chunks = << Frame(events[1]) >>
        /\ \A type \in {"session", "status", "delta", "done"} : Count(events, type) = 0
        /\ Responds = {}
        /\ stream = "none"

\* A stream closed by a failed conversations.create.
C28_Witness ==
    /\ FailedBeforeSession
    /\ \E i \in Creates : calls[i].raised # ""
    /\ Types(events) = <<"error">>
    /\ events[1].text \in BackendErrors

\* A stream closed by a failed get_clients().
C28_ClientsWitness ==
    /\ FailedBeforeSession
    /\ calls = <<>>
    /\ Types(events) = <<"error">>
    /\ events[1].text = "credential unavailable"

\* C29: in streaming mode a tool-call argument delta or an event of an
\* unrecognised type emits nothing to the caller and leaves the accumulated
\* text, the first-fragment flag and the trace unchanged; while the backend
\* stream is read only a text-delta event changes the accumulated text, and
\* only a completed-call or a completed-response event changes the trace.
InLoop == handler = "chat_stream" /\ pc = "g_loop"

C29_IgnoredEvents ==
    [][/\ (GenMcpArgumentsDelta \/ GenOtherEvent)
             => UNCHANGED <<events, chunks, full_text, first_text, trace>>
       /\ (InLoop /\ full_text' # full_text) => GenTextDelta
       /\ (InLoop /\ trace' # trace)
             => \/ \E has_arguments \in BOOLEAN, arguments \in StreamArguments :
                      GenMcpCompleted(has_arguments, arguments)
                \/ \E usage \in StreamUsages : GenCompleted(usage)]_vars

\* The backend stream is being read, a text delta has been accumulated and
\* a completed call has stored its intents: every kind of event can come
\* next.
C29_Witness ==
    /\ InLoop
    /\ full_text # <<>>
    /\ ~first_text
    /\ trace.query_intents # <<>>
    /\ sent < Len(answer)

\* C30: when a response contains several tool-invocation records,
\* extract_reasoning_trace keeps the values of the last record that yields
\* them: query_intents is the intent list of the last record with parseable
\* arguments, even if that list is empty, and sources_found is the count of
\* the last record whose output reads "Retrieved N documents", never the
\* sum; the streaming path replaces query_intents only with a non-empty
\* list.
SeveralRecords ==
    /\ harness.pc = "trace"
    /\ harness.response.to_dict_ok
    /\ Len(McpCalls(harness.response.dict)) >= 2

\* The last non-empty intent list among the completed calls.
LastNonEmptyIntents(records) ==
    LET P == {k \in 1..Len(records) :
                 /\ "arguments" \in DOMAIN records[k]
                 /\ ParseIntents(records[k].arguments).raised = ""
                 /\ ParseIntents(records[k].arguments).intents # <<>>}
    IN  IF P = {} THEN <<>>
        ELSE ParseIntents(records[CHOOSE k \in P : \A j \in P : j <= k].arguments).intents

C30_StreamKeepsNonEmpty ==
    BothServed =>
        harness.streaming.last.trace.query_intents
            = LastNonEmptyIntents(harness.backend.records)

C30_LastRecordWins ==
    /\ SeveralRecords =>
          /\ harness.trace.query_intents
                = LastIntents(McpCalls(harness.response.dict))
          /\ harness.trace.sources_found
                = LastCount(McpCalls(harness.response.dict))
    /\ C30_StreamKeepsNonEmpty

\* The cases in which the last record does win: every record's arguments
\* are a JSON object or are not JSON at all.
C30_LastRecordWinsWhenObjects ==
    (SeveralRecords
        /\ \A k \in 1..Len(McpCalls(harness.response.dict)) :
               ParseIntents(ArgumentsOf(McpCalls(harness.response.dict)[k])).raised
                   \in {"", "json_error"})
    => /\ harness.trace.query_intents
             = LastIntents(McpCalls(harness.response.dict))
       /\ harness.trace.sources_found
             = LastCount(McpCalls(harness.response.dict))

\* An empty list of a later record replaces nothing here but the initial
\* list; the count is the last one, 7, not the sum.
C30_EmptyListKept ==
    /\ SeveralRecords
    /\ harness.trace.query_intents = <<>>
    /\ harness.trace.sources_found = 7

====
